---- MODULE Spec2Model ----
(***************************************************************************)
(* The session loop of libs/interpreter_lib.py (class Interpreter):        *)
(* construction, interpreter_main and the steps of one loop iteration,     *)
(* with execute_code, the dependency recovery, the transient resource      *)
(* files and the interaction records.                                      *)
(*                                                                         *)
(* Python values: None is the string None_; a str is a TLA+ string; a      *)
(* prompt is the sequence of the pieces its f-string / += concatenates.    *)
(* The collaborators that are not part of the two source files             *)
(* (CodeInterpreter, PackageInstaller, litellm.completion, input, the file *)
(* system, save_history_json) return a value of a small set or raise.      *)
(***************************************************************************)
EXTENDS Integers, Sequences, FiniteSets, TLC

VARIABLES
    args,                  \* the parsed command line (self.args)
    system,                \* the platform the process runs on
    INTERPRETER_LANGUAGE, SAVE_CODE, EXECUTE_CODE, DISPLAY_CODE,
    INTERPRRETER_MODEL, INTERPRETER_MODE,
    CODE_MODE, SCRIPT_MODE, COMMAND_MODE, VISION_MODE,
    config_values,         \* the per-model configuration (a set of keys present)
    history,               \* self.history: sequence of <<task, prompt>>
    os_name,               \* local of interpreter_main
    pc,                    \* position of interpreter_main
    task, prompt, extracted_file_name, generated_output,
    extracted_code, code_output, code_error, package_name,
    fs,                    \* graph.png, chart.png, table.md on disk
    records,               \* number of records save_history_json has written
    trace,                 \* the calls of the current iteration, in order
    iter                   \* iterations started so far

cfgVars   == <<args, system, SAVE_CODE, EXECUTE_CODE, DISPLAY_CODE,
               CODE_MODE, SCRIPT_MODE, COMMAND_MODE, VISION_MODE, config_values, os_name>>
selfVars  == <<INTERPRETER_LANGUAGE, INTERPRRETER_MODEL, INTERPRETER_MODE, history>>
localVars == <<task, prompt, extracted_file_name, generated_output,
               extracted_code, code_output, code_error, package_name>>
envVars   == <<fs, records>>
vars      == <<cfgVars, selfVars, localVars, envVars, pc, trace, iter>>

----------------------------------------------------------------------------
(* Bounds *)

MaxIter == 2               \* loop iterations explored

----------------------------------------------------------------------------
(* Python values *)

None == "None_"

Truthy(v) == v # None /\ v # ""

\* str.lower() on the strings the model uses
Lower(s) ==
    CASE s = "EXIT"    -> "exit"
      [] s = "Quit"    -> "quit"
      [] s = "Y"       -> "y"
      [] s = "N"       -> "n"
      [] s = "MacOS"   -> "macos"
      [] s = "Linux"   -> "linux"
      [] s = "Windows" -> "windows"
      [] s = "Other"   -> "other"
      [] OTHER         -> s

\* the substrings of interest each text contains (Python's  x in text)
Substrings(text) ==
    CASE text = "ModuleNotFoundError: No module named 'pandas'"
                     -> {"ModuleNotFound", "No module named"}
      [] text = "ImportError: cannot import name 'x'"  -> {"ImportError"}
      [] text = "Error: Cannot find module 'express'"  -> {"Cannot find module"}
      [] text = "gpt-4"                                -> {"gpt"}
      [] text = "gemini-pro"                           -> {"gemini", "gemini-pro"}
      [] text = "gemini/gemini-pro"                    -> {"gemini", "gemini-pro"}
      [] text = "palm-2"                               -> {"palm"}
      [] text = "palm/chat-bison"                      -> {"palm"}
      [] text = "huggingface/codellama"                -> {"huggingface/"}
      [] text = "huggingface/huggingface/codellama"    -> {"huggingface/"}
      [] text = "palm-gpt"                             -> {"palm", "gpt"}
      [] text = "gemini-palm"                          -> {"gemini", "palm"}
      [] text = "http://x.org/a/pic.png"               -> {"http"}
      [] OTHER                                         -> {}

In(sub, text) == text # None /\ sub \in Substrings(text)

----------------------------------------------------------------------------
(* Inputs *)

ArgModes   == {"code", "script", "command", "vision", "chat", None}
ArgLangs   == {"javascript", None}
ArgModels  == {"gpt-4", "codellama"}
Systems    == {"Linux", "FreeBSD"}           \* platform.uname().system
Tasks      == {"exit", "EXIT", "Quit", "list files", "graph data.csv"}
Answers    == {"Y", "n", "yes"}
Codes      == {"", "print(1)"}
Packages   == {None, "", "pandas"}
ResourceFiles == {"graph.png", "chart.png", "table.md"}

\* what a runner of the execution backend does: returns (out, err) or raises,
\* and may have written resource files
RunnerOutcomes ==
    { [raised |-> FALSE, out |-> "42", err |-> "", msg |-> "",
       files |-> {"graph.png", "table.md"}],
      [raised |-> FALSE, out |-> "", err |-> "SyntaxError: invalid syntax", msg |-> "",
       files |-> {}],
      [raised |-> FALSE, out |-> "",
       err |-> "ModuleNotFoundError: No module named 'pandas'", msg |-> "",
       files |-> {}],
      [raised |-> FALSE, out |-> "42", err |-> "DeprecationWarning: x", msg |-> "",
       files |-> {}],                                    \* stdout and stderr both written
      [raised |-> FALSE, out |-> "", err |-> "", msg |-> "", files |-> {}],   \* silent
      [raised |-> TRUE, out |-> "", err |-> "", msg |-> "Permission denied", files |-> {}],
      [raised |-> TRUE, out |-> "", err |-> "",
       msg |-> "Error: Cannot find module 'express'", files |-> {}] }

Event(name, a) == [ev |-> name, val |-> a]

\* an exception raised by the named call, with its message
RaisedMsg(site, msg) == Event("exception", <<site, msg>>)

Raised(site) == RaisedMsg(site, "")

----------------------------------------------------------------------------
(* Construction: __init__, initialize, initialize_mode *)

initialize_mode_exact(a) ==
    [CODE_MODE    |-> a.mode = "code",
     SCRIPT_MODE  |-> a.mode = "script",
     COMMAND_MODE |-> a.mode = "command",
     VISION_MODE  |-> a.mode = "vision"]

initialize_mode(a) ==
    LET code0    == a.mode = "code"
        script   == a.mode = "script"
        command  == a.mode = "command"
        vision   == a.mode = "vision"
    IN  [CODE_MODE    |-> IF ~script /\ ~command /\ ~vision THEN TRUE ELSE code0,
         SCRIPT_MODE  |-> script,
         COMMAND_MODE |-> command,
         VISION_MODE  |-> vision]

\* The sessions explored: every mode with every value of --exec, --save_code and
\* --lang, with and without configuration values; the model, --display_code and
\* the platform vary along with them.
Sessions ==
    {s \in [args : [mode : ArgModes, lang : ArgLangs, exec : BOOLEAN, save_code : BOOLEAN,
                    display_code : BOOLEAN, model : ArgModels],
            system : Systems] :
        /\ s.args.display_code = s.args.exec
        /\ (s.args.model = "gpt-4") = s.args.save_code
        /\ (s.system = "Linux") = (s.args.lang = None)}

\* the object Interpreter(args) has assigned, with the configuration values cfg
\* and the model identifier model, the construction being at p with the calls tr made
Object(s, cfg, model, p, tr) ==
    /\ args = s.args /\ system = s.system
    /\ INTERPRETER_LANGUAGE = IF args.lang # None THEN args.lang ELSE "python"
    /\ SAVE_CODE = args.save_code
    /\ EXECUTE_CODE = args.exec
    /\ DISPLAY_CODE = args.display_code
    /\ INTERPRRETER_MODEL = model
    /\ INTERPRETER_MODE = "code"
    /\ LET m == initialize_mode(args)
       IN  /\ CODE_MODE = m.CODE_MODE
           /\ SCRIPT_MODE = m.SCRIPT_MODE
           /\ COMMAND_MODE = m.COMMAND_MODE
           /\ VISION_MODE = m.VISION_MODE
    /\ config_values = cfg
    /\ history = <<>>
    /\ os_name = None
    /\ pc = p
    /\ task = None /\ prompt = <<>> /\ extracted_file_name = None
    /\ generated_output = None /\ extracted_code = None
    /\ code_output = None /\ code_error = None /\ package_name = None
    /\ fs = [f \in ResourceFiles |-> "absent"]
    /\ records = 0
    /\ trace = tr
    /\ iter = 0

\* the object after Interpreter(args), with the configuration values of one of cfgs
Constructed(s, cfgs) == \E cfg \in cfgs : Object(s, cfg, s.args.model, "start", <<>>)

Init == \E s \in Sessions : Constructed(s, {{}, {"temperature", "max_tokens"}})

----------------------------------------------------------------------------
(* interpreter_main, before the loop *)

resolved_mode_unset == INTERPRETER_MODE

\* the setting of INTERPRETER_MODE from the mode flags
resolved_mode ==
    IF SCRIPT_MODE THEN "Script"
    ELSE IF COMMAND_MODE THEN "Command"
    ELSE IF VISION_MODE THEN "Vision"
    ELSE INTERPRETER_MODE

\* UtilityManager.get_os_platform: the name of the platform
get_os_platform(sys) ==
    CASE sys = "Darwin"  -> "MacOS"
      [] sys = "Linux"   -> "Linux"
      [] sys = "Windows" -> "Windows"
      [] OTHER           -> "Other"

interpreter_main_start ==
    /\ pc = "start"
    /\ os_name' = get_os_platform(system)
    /\ INTERPRETER_MODE' = resolved_mode
    /\ pc' = "await"
    /\ UNCHANGED <<args, system, SAVE_CODE, EXECUTE_CODE, DISPLAY_CODE, CODE_MODE,
                   SCRIPT_MODE, COMMAND_MODE, VISION_MODE, config_values, INTERPRETER_LANGUAGE,
                   INTERPRRETER_MODEL, history, localVars, envVars, trace, iter>>

----------------------------------------------------------------------------
(* One iteration: reading the task *)

IsExit_exact(t) == t \in {"exit", "quit"}

\* task.lower() in ['exit', 'quit']
IsExit(t) == Lower(t) \in {"exit", "quit"}

\* a file written in an earlier iteration is no longer this iteration's
Aged(f) == [x \in ResourceFiles |-> IF f[x] = "fresh" THEN "stale" ELSE f[x]]

\* task = input("> "), the user typing one of the tasks of T
read_task_from(T) ==
    /\ pc = "await"
    /\ \E t \in T :
         /\ task' = t
         /\ IF IsExit(t)
            THEN /\ pc' = "exit"
                 /\ UNCHANGED <<iter, fs>>
            ELSE /\ iter < MaxIter
                 /\ iter' = iter + 1
                 /\ fs' = Aged(fs)
                 /\ pc' = "prompt"
    /\ UNCHANGED <<cfgVars, selfVars, prompt, extracted_file_name, generated_output,
                   extracted_code, code_output, code_error, package_name, records, trace>>

read_task == read_task_from(Tasks)

\* input("> ") raises (end of input): logged and re-raised
read_task_raises ==
    /\ pc = "await"
    /\ pc' = "raised"
    /\ trace' = Append(trace, Raised("input"))
    /\ UNCHANGED <<cfgVars, selfVars, localVars, envVars, iter>>

\* The locals of the loop body are assigned again before they are read in the next
\* iteration: the return to  input("> ")  leaves them, and the record of calls, empty.
NextIteration ==
    /\ pc' = "await"
    /\ trace' = <<>>
    /\ task' = None /\ prompt' = <<>> /\ extracted_file_name' = None
    /\ generated_output' = None /\ extracted_code' = None
    /\ code_output' = None /\ code_error' = None /\ package_name' = None

----------------------------------------------------------------------------
(* Prompt building *)

get_code_prompt(t, o) ==
    <<"Generate the code in ", INTERPRETER_LANGUAGE, " language for this task '", t,
      " for Operating System: ", o, "'.">>

language_map_exact(o) ==
    CASE o = "macos"   -> "applescript"
      [] o = "linux"   -> "bash"
      [] o = "windows" -> "powershell"
      [] OTHER         -> "python"

language_map_next(o) == IF INTERPRETER_LANGUAGE = "bash" THEN "python" ELSE "bash"

language_map(o) ==
    CASE Lower(o) = "macos"   -> "applescript"
      [] Lower(o) = "linux"   -> "bash"
      [] Lower(o) = "windows" -> "powershell"
      [] OTHER                -> "python"

script_type(o) ==
    IF Lower(o) = "macos" THEN "Apple script"
    ELSE IF Lower(o) = "linux" THEN "Bash Shell script"
    ELSE IF Lower(o) = "windows" THEN "Powershell script"
    ELSE "script"

get_script_prompt(t, o) ==
    <<"\nGenerate ", script_type(o),
      " for this prompt and make this script easy to read and understand for this task '",
      t, " for Operating System is ", o, "'.">>

get_command_prompt(t, o) ==
    <<"Generate the single terminal command for this task '", t,
      " for Operating System is ", o, "'.">>

handle_vision_mode(t) ==
    <<"Give accurate and detailed information about the image provided and be very detailed about the image '",
      t, "'.">>

\* get_mode_prompt(t, o): the prompt of the mode, with its effect on the history
\* (Code mode) or on the target language (Script mode)
mode_prompt_latest(t, o) ==
    /\ prompt' = IF CODE_MODE THEN get_code_prompt(t, o)
                 ELSE IF SCRIPT_MODE THEN get_script_prompt(t, o)
                 ELSE IF COMMAND_MODE THEN get_command_prompt(t, o)
                 ELSE handle_vision_mode(t)
    /\ history' = IF CODE_MODE THEN <<<<t, prompt'>>>> ELSE history
    /\ INTERPRETER_LANGUAGE' = IF ~CODE_MODE /\ SCRIPT_MODE THEN language_map(o)
                               ELSE INTERPRETER_LANGUAGE
    /\ trace' = Append(trace, Event("get_mode_prompt",
                                    <<t, o, prompt', INTERPRETER_LANGUAGE,
                                      INTERPRETER_LANGUAGE'>>))

mode_prompt(t, o) ==
    /\ IF CODE_MODE
       THEN /\ prompt' = get_code_prompt(t, o)
            /\ history' = Append(history, <<t, prompt'>>)
            /\ UNCHANGED INTERPRETER_LANGUAGE
       ELSE IF SCRIPT_MODE
       THEN /\ INTERPRETER_LANGUAGE' = language_map(o)
            /\ prompt' = get_script_prompt(t, o)
            /\ UNCHANGED history
       ELSE IF COMMAND_MODE
       THEN /\ prompt' = get_command_prompt(t, o)
            /\ UNCHANGED <<history, INTERPRETER_LANGUAGE>>
       ELSE /\ prompt' = handle_vision_mode(t)
            /\ UNCHANGED <<history, INTERPRETER_LANGUAGE>>
    /\ trace' = Append(trace, Event("get_mode_prompt",
                                    <<t, o, prompt', INTERPRETER_LANGUAGE,
                                      INTERPRETER_LANGUAGE'>>))

\* prompt = self.get_mode_prompt(task, os_name)  in the loop body
get_mode_prompt_then(next) ==
    /\ pc = "prompt"
    /\ mode_prompt(task, os_name)
    /\ pc' = next
    /\ UNCHANGED <<cfgVars, INTERPRRETER_MODEL, INTERPRETER_MODE, task,
                   extracted_file_name, generated_output, extracted_code, code_output,
                   code_error, package_name, envVars, iter>>

get_mode_prompt_unclean == get_mode_prompt_then("file")

\* prompt = self.get_mode_prompt(task, os_name), and then self._clean_responses()
get_mode_prompt == get_mode_prompt_then("clean")

----------------------------------------------------------------------------
(* _clean_responses: each file that exists is removed, unless os.remove     *)
(* raises, which is printed and the loop over the files goes on             *)

files_to_remove_short == {"graph.png", "chart.png"}

files_to_remove == {"graph.png", "chart.png", "table.md"}

clean_responses ==
    /\ pc = "clean"
    /\ LET found == {f \in files_to_remove : fs[f] # "absent"}
       IN  \E failed \in SUBSET found :
             /\ fs' = [f \in ResourceFiles |->
                         IF f \in found /\ f \notin failed THEN "absent" ELSE fs[f]]
             /\ trace' = Append(trace, Event("_clean_responses", <<found, failed>>))
                            \o (IF failed = {} THEN <<>> ELSE <<Raised("os.remove")>>)
    /\ pc' = "file"
    /\ UNCHANGED <<cfgVars, selfVars, localVars, records, iter>>

----------------------------------------------------------------------------
(* The file named in the prompt (interpreter_main and                       *)
(* UtilityManager.extract_file_name)                                        *)

\* first match of the file-name pattern in a piece of text
FirstMatch(piece) ==
    CASE piece = "graph data.csv"                  -> "data.csv"
      [] piece = "Chart of sales.csv"              -> "sales.csv"
      [] piece = "summarise sales.csv"             -> "sales.csv"
      [] piece = "graph http://x.org/a/pic.png"    -> "http://x.org/a/pic.png"
      [] piece = "graph main.rs"                   -> "main.rs"
      [] OTHER                                     -> None

Extension(name) ==
    CASE name = "data.csv"               -> ".csv"
      [] name = "sales.csv"              -> ".csv"
      [] name = "http://x.org/a/pic.png" -> ".png"
      [] name = "main.rs"                -> ".rs"
      [] OTHER                           -> ""

allowed_extensions ==
    {".json", ".csv", ".xml", ".xls", ".txt", ".md", ".html", ".png", ".jpg", ".jpeg",
     ".gif", ".svg", ".zip", ".tar", ".gz", ".7z", ".rar"}

extract_file_name(p) ==
    LET I == {i \in 1..Len(p) : FirstMatch(p[i]) # None}
    IN  IF I = {} THEN None
        ELSE LET i == CHOOSE j \in I : \A k \in I : j <= k
                 file_name == FirstMatch(p[i])
             IN  IF Extension(file_name) \in allowed_extensions THEN file_name ELSE None

\* the keywords a piece of text contains once lower-cased
Keywords(piece) ==
    CASE piece = "graph data.csv" -> {"graph"}
      [] piece = "Chart of sales.csv"           -> {"chart"}
      [] piece = "graph http://x.org/a/pic.png" -> {"graph"}
      [] piece = "graph main.rs"                -> {"graph"}
      [] piece = "plot a chart"                 -> {"chart", "plot"}
      [] piece = "show a table"                 -> {"table"}
      [] piece = "GRAPHS, charts and a table"   -> {"graph", "graphs", "chart", "charts", "table"}
      [] piece = "['table', 'price']"           -> {"table"}
      [] piece = "using Python use Matplotlib save the graph in file called 'graph.png'"
              -> {"graph", "plot"}
      [] piece = "using JavaScript use Chart.js save the graph in file called 'graph.png'"
              -> {"graph", "chart"}
      [] piece = "using Python use Plotly save the chart in file called 'chart.png'"
              -> {"chart", "plot"}
      [] piece = "using JavaScript use Chart.js save the chart in file called 'chart.png'"
              -> {"chart"}
      [] piece = "using Python use Pandas save the table in file called 'table.md'"
              -> {"table"}
      [] piece = "using JavaScript use DataTables save the table in file called 'table.html'"
              -> {"table"}
      [] OTHER -> {}

\* any(word in prompt.lower() for word in words)
PromptHas(p, words) == \E i \in 1..Len(p) : Keywords(p[i]) \cap words # {}

IsUrl(name) == In("http", name) \/ In("https", name) \/ In("www.", name)

file_size_max == 50000

\* what is read of the named file: the headers of a .csv file, as a str
file_data(name) ==
    CASE name = "sales.csv" -> "['table', 'price']"
      [] OTHER              -> "['a', 'b']"

\* what the file system answers for the named file
FileOutcomes == {"missing", "getsize_raises", "too_large", "read_raises", "read"}

\* the fold made whenever the file was opened, read or not
Folds_when_opened(o) == o \in {"read_raises", "read"}

\* the file was opened and read to the end of the with block
Folds(o) == o = "read"

\* open(full_path) is reached for a file that exists and is small enough
Opened(o) == o \in {"read_raises", "read"}

file_step ==
    /\ pc = "file"
    /\ LET name == extract_file_name(prompt)
       IN  /\ extracted_file_name' = name
           /\ IF name = None \/ IsUrl(name)
              THEN /\ pc' = "augment"
                   /\ UNCHANGED <<prompt, trace>>
              ELSE \E o \in FileOutcomes :
                     /\ trace' = trace
                            \o (IF Opened(o) THEN <<Event("open", name)>> ELSE <<>>)
                            \o (IF o = "read_raises" THEN <<Raised("open")>>
                                ELSE IF o = "getsize_raises" THEN <<Raised("getsize")>>
                                ELSE <<>>)
                     /\ pc' = IF o = "getsize_raises" THEN "raised" ELSE "augment"
                     /\ prompt' =
                          IF Folds(o) /\ PromptHas(prompt, {"graph", "graphs", "chart", "charts"})
                          THEN prompt \o <<"\n", "This is file data from user input: ",
                                           file_data(name), " use this to analyze the data.">>
                          ELSE prompt
    /\ UNCHANGED <<cfgVars, selfVars, task, generated_output, extracted_code, code_output,
                   code_error, package_name, envVars, iter>>

----------------------------------------------------------------------------
(* The keyword augmentations of the prompt *)

graph_note(lang) ==
    IF lang = "python"
    THEN <<"\n", "using Python use Matplotlib save the graph in file called 'graph.png'">>
    ELSE IF lang = "javascript"
    THEN <<"\n", "using JavaScript use Chart.js save the graph in file called 'graph.png'">>
    ELSE <<>>

chart_note(lang) ==
    IF lang = "python"
    THEN <<"\n", "using Python use Plotly save the chart in file called 'chart.png'">>
    ELSE IF lang = "javascript"
    THEN <<"\n", "using JavaScript use Chart.js save the chart in file called 'chart.png'">>
    ELSE <<>>

table_note(lang) ==
    IF lang = "python"
    THEN <<"\n", "using Python use Pandas save the table in file called 'table.md'">>
    ELSE IF lang = "javascript"
    THEN <<"\n", "using JavaScript use DataTables save the table in file called 'table.html'">>
    ELSE <<>>

augment_each(p, lang) ==
    LET K == UNION {Keywords(p[i]) : i \in 1..Len(p)}
    IN  p \o (IF "graph" \in K THEN graph_note(lang) ELSE <<>>)
          \o (IF "graphs" \in K THEN graph_note(lang) ELSE <<>>)
          \o (IF "chart" \in K THEN chart_note(lang) ELSE <<>>)
          \o (IF "plot" \in K THEN chart_note(lang) ELSE <<>>)
          \o (IF "table" \in K THEN table_note(lang) ELSE <<>>)

augment_graph_only(p, lang) ==
    IF PromptHas(p, {"graph", "graphs"}) THEN p \o graph_note(lang) ELSE p

augment_all(p, lang) == p \o graph_note(lang) \o chart_note(lang) \o table_note(lang)

augment(p, lang) ==
    LET p1 == IF PromptHas(p, {"graph", "graphs"}) THEN p \o graph_note(lang) ELSE p
        p2 == IF PromptHas(p1, {"chart", "charts", "plot", "plots"})
              THEN p1 \o chart_note(lang) ELSE p1
    IN  IF PromptHas(p2, {"table"}) THEN p2 \o table_note(lang) ELSE p2

augment_prompt_until_changed ==
    /\ pc = "augment"
    /\ prompt' = augment(prompt, INTERPRETER_LANGUAGE)
    /\ pc' = IF prompt' = prompt THEN "file" ELSE "model"
    /\ UNCHANGED <<cfgVars, selfVars, task, extracted_file_name, generated_output,
                   extracted_code, code_output, code_error, package_name, envVars, trace,
                   iter>>

augment_prompt ==
    /\ pc = "augment"
    /\ prompt' = augment(prompt, INTERPRETER_LANGUAGE)
    /\ pc' = "model"
    /\ UNCHANGED <<cfgVars, selfVars, task, extracted_file_name, generated_output,
                   extracted_code, code_output, code_error, package_name, envVars, trace,
                   iter>>

----------------------------------------------------------------------------
(* generate_text and the Vision short cut after it *)

\* the provider branch the model identifier selects
Branch(m) ==
    IF In("gpt", m) THEN "gpt"
    ELSE IF In("palm", m) THEN "palm"
    ELSE IF In("gemini", m) THEN "gemini"
    ELSE "huggingface"

Rewritten_bare(m) ==
    CASE Branch(m) = "gpt"    -> m
      [] Branch(m) = "palm"   -> "chat-bison"
      [] Branch(m) = "gemini" -> IF INTERPRETER_MODE = "Vision" THEN m ELSE "gemini-pro"
      [] OTHER                -> IF In("huggingface/", m) THEN m
                                 ELSE IF m = "codellama" THEN "huggingface/codellama"
                                 ELSE m

Rewritten_again(m) ==
    CASE m = "codellama"             -> "huggingface/codellama"
      [] m = "huggingface/codellama" -> "huggingface/huggingface/codellama"
      [] OTHER                       -> m

\* the identifier the branch leaves in INTERPRRETER_MODEL
Rewritten(m) ==
    CASE Branch(m) = "gpt"    -> m
      [] Branch(m) = "palm"   -> "palm/chat-bison"
      [] Branch(m) = "gemini" -> IF INTERPRETER_MODE = "Vision" THEN m ELSE "gemini/gemini-pro"
      [] OTHER                -> IF In("huggingface/", m) THEN m
                                 ELSE IF m = "codellama" THEN "huggingface/codellama"
                                 ELSE m

\* what the call of the provider gives: an exception, a response without the
\* content field (_extract_content raises), or a response with it
Responses == {"raises", "malformed", "ok"}

\* the limits the call is made with: those of the configuration, the defaults of
\* the signature (0.1, 1024) for a key it lacks and for a falsy configuration
temperature_of(cfg) == IF cfg # {} /\ "temperature" \in cfg THEN "config" ELSE "default"

max_tokens_of(cfg) == IF cfg # {} /\ "max_tokens" \in cfg THEN "config" ELSE "default"

\* the keyword arguments of completion(...) in the branch b
completion_limits_fixed(b, cfg) ==
    <<"default", IF b = "gemini" THEN "absent" ELSE "default">>

completion_limits(b, cfg) ==
    <<temperature_of(cfg), IF b = "gemini" THEN "absent" ELSE max_tokens_of(cfg)>>

\* generate_text(prompt, history, config_values=self.config_values,
\* image_file=image_file); to_caller: called on the object outside the loop
generate_text_of(image_file, to_caller) ==
    LET b == Branch(INTERPRRETER_MODEL)
        m == Rewritten(INTERPRRETER_MODEL)
        vision == b = "gemini" /\ INTERPRETER_MODE = "Vision"
        limits == completion_limits(b, config_values)
        call == IF vision THEN Event("gemini_vision", image_file)
                ELSE Event("completion", <<m, limits[1], limits[2]>>)
    IN  IF b = "gpt" /\ config_values = {}
        THEN \* api_base is read before it was ever assigned
             /\ pc' = "raised"
             /\ trace' = Append(trace, Raised("api_base"))
             /\ UNCHANGED <<INTERPRRETER_MODEL, localVars>>
        ELSE IF vision /\ ~Truthy(image_file)
        THEN \* "Image file is not valid or Corrupted."
             /\ pc' = "raised"
             /\ trace' = Append(trace, Raised("image_file"))
             /\ UNCHANGED <<INTERPRRETER_MODEL, localVars>>
        ELSE \E r \in (IF vision
                       THEN Responses \ {"malformed"}   \* returned as it is
                       ELSE Responses) :
               /\ INTERPRRETER_MODEL' = m
               /\ IF r = "ok" /\ INTERPRETER_MODE = "Vision" /\ ~to_caller
                  THEN NextIteration        \* display the output, continue
                  ELSE /\ trace' = Append(trace, call)
                             \o (IF r = "raises" THEN <<Raised(call.ev)>>
                                 ELSE IF r = "malformed" THEN <<Raised("_extract_content")>>
                                 ELSE <<>>)
                       /\ generated_output' = IF r = "ok" THEN "a fenced code block" ELSE None
                       /\ pc' = IF r # "ok" THEN "raised"
                                ELSE IF to_caller THEN "called" ELSE "extract"
                       /\ UNCHANGED <<task, prompt, extracted_file_name, extracted_code,
                                      code_output, code_error, package_name>>

generate_text ==
    /\ pc = "model"
    /\ generate_text_of(extracted_file_name, FALSE)
    /\ UNCHANGED <<cfgVars, INTERPRETER_LANGUAGE, INTERPRETER_MODE, history, envVars, iter>>

----------------------------------------------------------------------------
(* Code extraction and saving *)

after_extraction_any(c) == "save"

after_extraction_unsaved(c) == IF c # "" THEN "execute" ELSE "persist"

after_extraction_skip(c) == IF c # "" THEN "save" ELSE "await"

\* if extracted_code: save, execute, recover, open; then the record is written
after_extraction(c) == IF c # "" THEN "save" ELSE "persist"

extract_code ==
    /\ pc = "extract"
    /\ \/ \E c \in Codes :
            /\ extracted_code' = c
            /\ pc' = after_extraction(c)
            /\ trace' = Append(trace, Event("extract_code", c))
       \/ /\ pc' = "raised"
          /\ trace' = Append(trace, Raised("extract_code"))
          /\ UNCHANGED extracted_code
    /\ UNCHANGED <<cfgVars, selfVars, task, prompt, extracted_file_name, generated_output,
                   code_output, code_error, package_name, envVars, iter>>

\* the file save_code is asked to write, None when no branch applies
save_path ==
    IF INTERPRETER_LANGUAGE = "javascript" /\ SAVE_CODE /\ CODE_MODE THEN "output/code.js"
    ELSE IF INTERPRETER_LANGUAGE = "python" /\ SAVE_CODE /\ CODE_MODE THEN "output/code.py"
    ELSE IF SAVE_CODE /\ COMMAND_MODE THEN "output/command.txt"
    ELSE IF SAVE_CODE /\ SCRIPT_MODE THEN "output/script.txt"
    ELSE None

save_code_raising(next) ==
    /\ pc = "save"
    /\ IF save_path = None
       THEN /\ pc' = "execute"
            /\ UNCHANGED trace
       ELSE \/ /\ trace' = Append(trace, Event("save_code", <<save_path, extracted_code>>))
               /\ pc' = "execute"
            \/ /\ trace' = trace \o <<Event("save_code", <<save_path, extracted_code>>),
                                      Raised("save_code")>>
               /\ pc' = next
    /\ UNCHANGED <<cfgVars, selfVars, localVars, envVars, iter>>

save_code_swallows == save_code_raising("execute")

\* an exception of save_code reaches the handler of the loop body, which re-raises
save_code == save_code_raising("raised")

----------------------------------------------------------------------------
(* execute_code *)

\* the runner of the execution backend the mode flags select, with its second argument
runner_of_code(os) == <<"execute_code", INTERPRETER_LANGUAGE>>

runner_of(os) ==
    IF SCRIPT_MODE THEN <<"execute_script", os>>
    ELSE IF COMMAND_MODE THEN <<"execute_command", None>>
    ELSE IF CODE_MODE THEN <<"execute_code", INTERPRETER_LANGUAGE>>
    ELSE <<None, None>>

runner == runner_of(os_name)

run_result_propagates(r, ret) ==
    IF r.raised
    THEN [out |-> None, err |-> None, pc |-> "raised"]
    ELSE [out |-> r.out, err |-> r.err, pc |-> ret]

run_result_error_first(r, ret) ==
    IF r.raised
    THEN [out |-> None, err |-> r.msg, pc |-> ret]
    ELSE [out |-> IF r.err # "" THEN None ELSE r.out, err |-> r.err, pc |-> ret]

\* what execute_code returns, and where the caller goes on, once the runner is done
run_result(r, ret) ==
    IF r.raised
    THEN [out |-> None, err |-> r.msg, pc |-> ret]      \* except Exception: (None, str(e))
    ELSE [out |-> r.out, err |-> r.err, pc |-> ret]

Written(f, files) == [x \in ResourceFiles |-> IF x \in files THEN "fresh" ELSE f[x]]

Returned(out, err) == Event("returned", <<out, err>>)

Confirmed_startswith(execute) == execute \in {"y", "Y", "yes"}

\* if execute.lower() == 'y'
Confirmed(execute) == Lower(execute) = "y"

\* code_output, code_error = "", ""  stays when no mode flag selects a runner
NoRunner == [raised |-> FALSE, out |-> "", err |-> "", msg |-> "", files |-> {}]

\* execute_code(extracted_code, os_name), the caller going on at ret
execute_code_of(code, os, ret) ==
    LET call == Event("execute_code", <<code, os, INTERPRETER_MODE, INTERPRETER_LANGUAGE>>)
        run  == runner_of(os)
    IN  IF INTERPRETER_MODE = "Vision"
        THEN /\ code_output' = None /\ code_error' = None
             /\ trace' = trace \o <<call, Returned(None, None)>>
             /\ pc' = ret
             /\ UNCHANGED fs
        ELSE \E execute \in (IF EXECUTE_CODE THEN {"y"} ELSE Answers \cup {"input raises"}) :
               LET asked == IF EXECUTE_CODE THEN <<call>>
                            ELSE <<call, Event("input", execute)>>
               IN  IF execute = "input raises"
                   THEN /\ pc' = "raised"
                        /\ trace' = trace \o Append(asked, Raised("input"))
                        /\ UNCHANGED <<code_output, code_error, fs>>
                   ELSE IF Confirmed(execute)
                   THEN \E r \in (IF run[1] = None THEN {NoRunner} ELSE RunnerOutcomes) :
                          LET res == run_result(r, ret)
                          IN  /\ trace' = trace \o asked
                                     \o (IF run[1] = None THEN <<>>
                                         ELSE <<Event("runner", <<run[1], code, run[2]>>)>>)
                                     \o (IF r.raised THEN <<RaisedMsg("runner", r.msg)>>
                                         ELSE IF run[1] = None THEN <<>>
                                         ELSE <<Event("runner returned", <<r.out, r.err>>)>>)
                                     \o (IF res.pc = "raised" THEN <<>>
                                         ELSE <<Returned(res.out, res.err)>>)
                              /\ fs' = Written(fs, r.files)
                              /\ pc' = res.pc
                              /\ code_output' = IF res.pc = "raised" THEN code_output
                                                ELSE res.out
                              /\ code_error' = IF res.pc = "raised" THEN code_error
                                               ELSE res.err
                   ELSE /\ code_output' = None /\ code_error' = None
                        /\ trace' = trace \o asked \o <<Returned(None, None)>>
                        /\ pc' = ret
                        /\ UNCHANGED fs

\* the calls of the loop body: self.execute_code(extracted_code, os_name)
execute_code(ret) == execute_code_of(extracted_code, os_name, ret)

execute_first ==
    /\ pc = "execute"
    /\ execute_code("recover")
    /\ UNCHANGED <<cfgVars, selfVars, task, prompt, extracted_file_name, generated_output,
                   extracted_code, package_name, records, iter>>

----------------------------------------------------------------------------
(* Recovery: install the missing package and execute once more *)

error_messages == {"ModuleNotFound", "ImportError", "No module named", "Cannot find module"}

Matches(err) == err # None /\ \E error_message \in error_messages : In(error_message, err)

after_extract_always(name) == "install"

after_extract_fatal(name) == IF Truthy(name) THEN "install" ELSE "raised"

after_extract_skip(name) == IF Truthy(name) THEN "retry" ELSE "open"

\* if package_name: install it and execute again; else go on to the resource files
after_extract(name) == IF Truthy(name) THEN "install" ELSE "open"

recover_check ==
    /\ pc = "recover"
    /\ IF Matches(code_error)
       THEN \/ \E n \in Packages :
                 /\ package_name' = n
                 /\ pc' = after_extract(n)
                 /\ trace' = Append(trace, Event("extract_package_name",
                                                 <<code_error, INTERPRETER_LANGUAGE, n>>))
            \/ /\ pc' = "raised"
               /\ trace' = trace \o <<Event("extract_package_name",
                                            <<code_error, INTERPRETER_LANGUAGE, None>>),
                                      Raised("extract_package_name")>>
               /\ UNCHANGED package_name
       ELSE /\ pc' = "open"
            /\ UNCHANGED <<trace, package_name>>
    /\ UNCHANGED <<cfgVars, selfVars, task, prompt, extracted_file_name, generated_output,
                   extracted_code, code_output, code_error, envVars, iter>>

install_package ==
    /\ pc = "install"
    /\ LET call == Event("install_package", <<package_name, INTERPRETER_LANGUAGE>>)
       IN  \/ /\ pc' = "retry"          \* installed; time.sleep(10)
              /\ trace' = Append(trace, call)
           \/ /\ pc' = "raised"
              /\ trace' = trace \o <<call, Raised("install_package")>>
    /\ UNCHANGED <<cfgVars, selfVars, localVars, envVars, iter>>

execute_retry_again ==
    /\ pc = "retry"
    /\ execute_code("recover")
    /\ UNCHANGED <<cfgVars, selfVars, task, prompt, extracted_file_name, generated_output,
                   extracted_code, package_name, records, iter>>

\* the second call of execute_code; whatever it returns, the resource files are next
execute_retry ==
    /\ pc = "retry"
    /\ execute_code("open")
    /\ UNCHANGED <<cfgVars, selfVars, task, prompt, extracted_file_name, generated_output,
                   extracted_code, package_name, records, iter>>

----------------------------------------------------------------------------
(* Opening the resource files and writing the interaction record *)

\* _open_resource_file on graph.png, chart.png, table.md: each one that exists is
\* opened; an error of the viewer is displayed and nothing more
open_resources ==
    /\ pc = "open"
    /\ LET present == {f \in ResourceFiles : fs[f] # "absent"}
       IN  \E viewer_fails \in (IF present = {} THEN {FALSE} ELSE BOOLEAN) :
             trace' = Append(trace, Event("_open_resource_file", present))
                         \o (IF viewer_fails THEN <<Raised("subprocess.call")>> ELSE <<>>)
    /\ pc' = "persist"
    /\ UNCHANGED <<cfgVars, selfVars, localVars, envVars, iter>>

save_history_json_unrecorded ==
    /\ pc = "persist"
    /\ \/ /\ UNCHANGED records
          /\ NextIteration
       \/ /\ pc' = "raised"
          /\ trace' = Append(trace, Raised("save_history_json"))
          /\ UNCHANGED <<records, localVars>>
    /\ UNCHANGED <<cfgVars, selfVars, fs, iter>>

\* the call of save_history_json that ends the loop body: one more record
save_history_json ==
    /\ pc = "persist"
    /\ \/ /\ records' = records + 1
          /\ NextIteration
       \/ /\ pc' = "raised"
          /\ trace' = Append(trace, Raised("save_history_json"))
          /\ UNCHANGED <<records, localVars>>
    /\ UNCHANGED <<cfgVars, selfVars, fs, iter>>

----------------------------------------------------------------------------

Next ==
    \/ interpreter_main_start
    \/ read_task
    \/ read_task_raises
    \/ get_mode_prompt
    \/ clean_responses
    \/ file_step
    \/ augment_prompt
    \/ generate_text
    \/ extract_code
    \/ save_code
    \/ execute_first
    \/ recover_check
    \/ install_package
    \/ execute_retry
    \/ open_resources
    \/ save_history_json

Spec == Init /\ [][Next]_vars

\* The session loop of an executing session, every call of a collaborator
\* returning or raising: the single thread of interpreter_main goes on with its
\* next statement whenever there is one.
FairSessions ==
    {s \in [args : [mode : {"code", "vision"}, lang : {None}, exec : {TRUE}, save_code : {TRUE},
                    display_code : {TRUE}, model : {"codellama"}],
            system : {"Linux"}] : TRUE}

InitFair == \E s \in FairSessions : Constructed(s, {{"temperature", "max_tokens"}})

FairSpec == InitFair /\ [][Next]_vars /\ WF_vars(Next)

----------------------------------------------------------------------------
(* Reading the record of calls *)

Idx(name) == {i \in 1..Len(trace) : trace[i].ev = name}

Count(name) == Cardinality(Idx(name))

Min(S) == CHOOSE i \in S : \A j \in S : i <= j

Max(S) == CHOOSE i \in S : \A j \in S : i >= j

\* the calls of the exception sites in the record
Exceptions == {i \in 1..Len(trace) : trace[i].ev = "exception"}

Site(i) == trace[i].val[1]

\* the steps of the loop body after _clean_responses
AfterClean == {"file", "augment", "model", "extract", "save", "execute", "recover",
               "install", "retry", "open", "persist"}

\* the loop body has come back to input("> ")
BackToInput == pc \notin {"start", "await"} /\ pc' = "await"

----------------------------------------------------------------------------
(* The methods of the object called one at a time, outside the session     *)
(* loop: execute_code and get_mode_prompt, before interpreter_main has set *)
(* INTERPRETER_MODE (pc = "start") and after it (pc = "await")             *)

AllSystems == Systems \cup {"Darwin", "Windows"}

Objects ==
    {s \in [args : [mode : ArgModes, lang : ArgLangs, exec : BOOLEAN, save_code : BOOLEAN,
                    display_code : BOOLEAN, model : ArgModels],
            system : AllSystems] :
        /\ s.args.display_code = s.args.exec
        /\ s.args.save_code = s.args.exec
        /\ (s.args.model = "gpt-4") = s.args.exec}

InitCalls == \E s \in Objects : Constructed(s, {{"temperature", "max_tokens"}})

\* interpreter.execute_code("print(1)", os_name)
execute_code_call ==
    /\ pc \in {"start", "await"}
    /\ trace = <<>>
    /\ execute_code_of("print(1)", get_os_platform(system), "called")
    /\ UNCHANGED <<cfgVars, selfVars, task, prompt, extracted_file_name, generated_output,
                   extracted_code, package_name, records, iter>>

\* interpreter.get_mode_prompt(task, os_name), a first and a second time
get_mode_prompt_call ==
    /\ pc \in {"start", "await"}
    /\ Count("execute_code") = 0
    /\ Count("get_mode_prompt") < 2
    /\ Len(history) <= MaxIter
    /\ \E t \in {x \in Tasks : ~IsExit(x)} :
         /\ task = None \/ task = t             \* the second call repeats the first
         /\ task' = t
         /\ mode_prompt(t, get_os_platform(system))
    /\ UNCHANGED <<cfgVars, INTERPRRETER_MODEL, INTERPRETER_MODE, extracted_file_name,
                   generated_output, extracted_code, code_output, code_error, package_name,
                   envVars, iter, pc>>

\* the caller has the results; the object is where it was before the calls
call_returns ==
    /\ pc = "called" \/ (pc \in {"start", "await"} /\ trace # <<>>)
    /\ pc' = IF pc = "called" THEN (IF os_name = None THEN "start" ELSE "await") ELSE pc
    /\ trace' = <<>>
    /\ task' = None /\ prompt' = <<>>
    /\ code_output' = None /\ code_error' = None
    /\ UNCHANGED <<cfgVars, selfVars, extracted_file_name, generated_output,
                   extracted_code, package_name, envVars, iter>>

NextCalls ==
    \/ interpreter_main_start
    \/ execute_code_call
    \/ get_mode_prompt_call
    \/ call_returns

CallSpec == InitCalls /\ [][NextCalls]_vars

----------------------------------------------------------------------------
(* The prompt of one iteration, from the task to the model call: the mode   *)
(* prompt, the file named in it, the keyword augmentations                  *)

PromptTasks ==
    {"list files", "graph data.csv", "Chart of sales.csv", "summarise sales.csv",
     "graph http://x.org/a/pic.png", "graph main.rs", "plot a chart", "show a table",
     "GRAPHS, charts and a table"}

PromptSessions ==
    {s \in [args : [mode : {"code", "script", "command", "vision"}, lang : ArgLangs,
                    exec : {FALSE}, save_code : {FALSE}, display_code : {FALSE},
                    model : {"codellama"}],
            system : Systems] : TRUE}

InitPrompt == \E s \in PromptSessions : Constructed(s, {{"temperature", "max_tokens"}})

read_prompt_task == read_task_from(PromptTasks)

NextPrompt ==
    \/ interpreter_main_start
    \/ read_prompt_task
    \/ get_mode_prompt
    \/ clean_responses
    \/ file_step
    \/ augment_prompt

PromptSpec == InitPrompt /\ [][NextPrompt]_vars

----------------------------------------------------------------------------
(* The client: initialize_client at construction, and generate_text called *)
(* on the object for each model identifier, configuration and environment  *)

ClientModels == {"gpt-4", "palm-2", "gemini-pro", "codellama", "huggingface/codellama",
                 "palm-gpt", "gemini-palm"}

\* configs/<model>.config as read_config_file returns it: no file (it raises), a
\* file without settings, and files with settings; none sets HF_MODEL
ClientConfigs ==
    {[found |-> FALSE, values |-> {}]} \cup
    {[found |-> TRUE, values |-> v] : v \in {{}, {"temperature"}, {"temperature", "max_tokens"}}}

KeyNames == {"OPENAI_API_KEY", "PALM_API_KEY", "GEMINI_API_KEY", "HUGGINGFACE_API_KEY"}

\* os.getenv(name) after load_dotenv: unset or empty, set to a text that fails
\* the test made of it, set to a text that passes
Environments == [KeyNames -> {"missing", "malformed", "valid"}]

\* the first check of the listed keys that fails, None when all pass
model_api_keys == <<[model |-> "palm", api_key_name |-> "PALM_API_KEY"],
                    [model |-> "gemini-pro", api_key_name |-> "GEMINI_API_KEY"]>>

key_error(env, api_key_name, not_found, malformed) ==
    IF env[api_key_name] = "missing" THEN not_found
    ELSE IF env[api_key_name] = "malformed" THEN malformed
    ELSE None

provider_key_error(model, env) ==
    LET failing == {i \in 1..Len(model_api_keys) :
                      /\ In(model_api_keys[i].model, model)
                      /\ env[model_api_keys[i].api_key_name] # "valid"}
    IN  IF failing = {} THEN None
        ELSE LET i == CHOOSE j \in failing : \A k \in failing : j <= k
                 api_key_name == model_api_keys[i].api_key_name
             IN  key_error(env, api_key_name, "not found in .env file.",
                           "should have no spaces, length greater than 15.")

huggingface_key_error(env) ==
    key_error(env, "HUGGINGFACE_API_KEY", "HuggingFace token not found in .env file.",
              "HuggingFace token should start with 'hf_'.")

\* the validation with a break after the provider whose key was checked
initialize_client_break(model, cfg, env) ==
    LET openai == IF In("gpt", model)
                  THEN key_error(env, "OPENAI_API_KEY", "OpenAI Key not found in .env file.",
                                 "OpenAI token should start with 'sk-'.")
                  ELSE None
        matched == \E i \in 1..Len(model_api_keys) : In(model_api_keys[i].model, model)
    IN  IF ~cfg.found THEN "read_config_file"
        ELSE IF openai # None THEN openai
        ELSE IF provider_key_error(model, env) # None THEN provider_key_error(model, env)
        ELSE IF matched THEN None
        ELSE huggingface_key_error(env)

\* initialize_client: the message of the exception it raises, None when it returns
initialize_client(model, cfg, env) ==
    LET openai == IF In("gpt", model)
                  THEN key_error(env, "OPENAI_API_KEY", "OpenAI Key not found in .env file.",
                                 "OpenAI token should start with 'sk-'.")
                  ELSE None
    IN  IF ~cfg.found THEN "read_config_file"
        ELSE IF openai # None THEN openai
        ELSE IF provider_key_error(model, env) # None THEN provider_key_error(model, env)
        ELSE huggingface_key_error(env)        \* the else of a for without break

ClientSessions ==
    {s \in [args : [mode : {"code", "vision"}, lang : {None}, exec : {FALSE},
                    save_code : {FALSE}, display_code : {FALSE}, model : ClientModels],
            system : {"Linux"}] : TRUE}

\* Interpreter(args) in the environment env with the configuration file cfg: the
\* object, or the exception of initialize_client
InitClient ==
    \E s \in ClientSessions, cfg \in ClientConfigs, env \in Environments :
       LET raised == initialize_client(s.args.model, cfg, env)
           called == Event("initialize_client", <<s.args.model, cfg, env>>)
       IN  Object(s, cfg.values, s.args.model,
                  IF raised = None THEN "start" ELSE "startup failed",
                  IF raised = None THEN <<called>>
                  ELSE <<called, RaisedMsg("initialize_client", raised)>>)

ImageFiles == {None, "pic.png"}

\* interpreter.generate_text(message, history, config_values=..., image_file=f)
generate_text_call ==
    /\ pc \in {"start", "await"}
    /\ iter < MaxIter
    /\ iter' = iter + 1
    /\ \E f \in ImageFiles : generate_text_of(f, TRUE)
    /\ UNCHANGED <<cfgVars, INTERPRETER_LANGUAGE, INTERPRETER_MODE, history, envVars>>

\* the caller has the text, or the exception
generate_text_returns ==
    /\ pc \in {"called", "raised"}
    /\ pc' = IF os_name = None THEN "start" ELSE "await"
    /\ generated_output' = None
    /\ UNCHANGED <<cfgVars, selfVars, task, prompt, extracted_file_name, extracted_code,
                   code_output, code_error, package_name, envVars, trace, iter>>

NextClient ==
    \/ interpreter_main_start
    \/ generate_text_call
    \/ generate_text_returns

ClientSpec == InitClient /\ [][NextClient]_vars

\* the (output, error) pair of the first execution of the iteration
FirstReturn == trace[Min(Idx("returned"))].val

----------------------------------------------------------------------------
(* Claims *)

\* C1: in one iteration execute_code is invoked at most twice and install_package
\* at most once, whatever the second invocation returns; no runner runs a third time.
C1_AtMostTwoExecutions ==
    /\ Count("execute_code") <= 2
    /\ Count("runner") <= 2
    /\ Count("install_package") <= 1

\* the second execution has returned another dependency error, and the loop has moved on
C1_Witness ==
    /\ pc = "open"
    /\ Count("execute_code") = 2
    /\ Matches(code_error)

\* C2: once the first error matched a signature and a package name was extracted,
\* install_package is called exactly once, with that name, after the extraction and
\* before the second execute_code, which gets the code, OS name, mode and language of
\* the first; a second execute_code happens in no other case.
C2_InstallThenRetry ==
    LET ex  == Idx("execute_code")
        ins == Idx("install_package")
        xp  == Idx("extract_package_name")
    IN  /\ (xp # {} /\ Truthy(package_name) /\ pc # "install") =>
              /\ Cardinality(ins) = 1
              /\ \A i \in ins : /\ trace[i].val = <<package_name, INTERPRETER_LANGUAGE>>
                                /\ Max(xp) < i
        /\ (xp # {} /\ Truthy(package_name) /\ pc \in {"open", "persist"}) =>
              Cardinality(ex) = 2
        /\ Cardinality(ex) = 2 =>
              /\ Cardinality(xp) = 1 /\ Truthy(package_name)
              /\ trace[Min(xp)].val[1] = FirstReturn[2] /\ Matches(FirstReturn[2])
              /\ Cardinality(ins) = 1
              /\ \A i \in ins : Min(ex) < i /\ i < Max(ex)
              /\ trace[Max(ex)].val = trace[Min(ex)].val

\* a package was installed between the two executions
C2_Witness ==
    /\ pc = "open"
    /\ Count("execute_code") = 2
    /\ Count("install_package") = 1
    /\ package_name = "pandas"

\* C3: when the first execution gives no error, an error without a dependency
\* signature, or no package name is extracted, install_package is not called,
\* execute_code is invoked once and its (output, error) pair stays the result.
C3_NoRepair ==
    Idx("returned") # {} =>
       /\ (pc \in {"open", "persist"}
              /\ (~Matches(FirstReturn[2]) \/ ~Truthy(package_name))) =>
             /\ Count("execute_code") = 1
             /\ Count("install_package") = 0
             /\ <<code_output, code_error>> = FirstReturn
       /\ pc \in {"install", "retry"} =>
             Matches(FirstReturn[2]) /\ Truthy(package_name)

\* the error matched a signature, but the extracted package name was empty
C3_Witness ==
    /\ pc = "open"
    /\ Matches(code_error)
    /\ package_name = ""
    /\ Count("execute_code") = 1

\* C4 as stated: every iteration that comes back to the input prompt has written
\* exactly one interaction record, in every mode.
C4_OneRecordInEveryMode ==
    [][BackToInput => records' = records + 1]_vars

\* C4, amended: an iteration that comes back to the input prompt has written exactly
\* one record in Code, Script and Command mode (empty code, declined or failed
\* execution included) and none in Vision mode; a record is written by no other step.
C4_OneRecordUnlessVision ==
    [][/\ BackToInput =>
             records' = records + (IF INTERPRETER_MODE = "Vision" THEN 0 ELSE 1)
       /\ records' # records => (BackToInput /\ pc = "persist")]_vars

\* two Command-mode iterations are over and two records are written
C4_Witness ==
    /\ pc = "await"
    /\ iter = 2
    /\ records = 2
    /\ INTERPRETER_MODE = "Command"

\* C5: an input that is exit or quit in any letter case ends the loop at once:
\* no prompt, no history entry, no file deletion, no call, no record; and nothing
\* runs after the loop has ended.
C5_ExitEndsTheLoop ==
    [][/\ pc # "exit"
       /\ (pc = "await" /\ Lower(task') \in {"exit", "quit"}) =>
             /\ pc' = "exit"
             /\ UNCHANGED <<cfgVars, selfVars, prompt, extracted_file_name,
                            generated_output, extracted_code, code_output, code_error,
                            package_name, envVars, trace, iter>>]_vars

\* the loop ended on "Quit" after one full iteration
C5_Witness ==
    /\ pc = "exit"
    /\ task = "Quit"
    /\ records = 1

\* C6 as stated: the resource files are deleted before get_mode_prompt runs.
C6_CleanBeforePrompt ==
    \A i \in Idx("get_mode_prompt") : \E j \in Idx("_clean_responses") : j < i

\* C6, amended: in every iteration the resource files are deleted once, right after
\* get_mode_prompt (and its history / language side effects) and before the file
\* step, the augmentations, the model call, the saving and the execution.
C6_CleanAfterPrompt ==
    /\ pc = "clean" => Count("get_mode_prompt") = 1 /\ Count("_clean_responses") = 0
    /\ pc \in AfterClean =>
          /\ Count("get_mode_prompt") = 1
          /\ Count("_clean_responses") = 1
          /\ Min(Idx("get_mode_prompt")) = 1
          /\ Min(Idx("_clean_responses")) = 2

\* the second iteration has deleted the files the first one produced
C6_Witness ==
    /\ pc = "model"
    /\ iter = 2
    /\ \E i \in Idx("_clean_responses") : trace[i].val = <<{"graph.png", "table.md"}, {}>>

\* C7 as stated: at the execution and open steps no resource file of an earlier
\* iteration exists.
C7_NoStaleFile ==
    pc \in {"execute", "retry", "open"} => \A f \in ResourceFiles : fs[f] # "stale"

\* C7, the extent of the failure: at the execution and open steps a resource file
\* of an earlier iteration exists only if os.remove raised for it in this
\* iteration's _clean_responses, whose handler prints the error and goes on.
C7_StaleOnlyIfRemoveFailed ==
    pc \in {"execute", "retry", "open"} =>
       \A f \in ResourceFiles :
          fs[f] = "stale" => \E i \in Idx("_clean_responses") : f \in trace[i].val[2]

\* os.remove raised for the graph.png of the earlier iteration, the code of this
\* iteration was executed, and the old graph.png is about to be opened
C7_Witness ==
    /\ pc = "open"
    /\ Count("execute_code") >= 1
    /\ fs["graph.png"] = "stale"
    /\ \E i \in Idx("_clean_responses") : "graph.png" \in trace[i].val[2]

\* C8: an exception of the runner makes execute_code return (None, message); the
\* iteration goes on with the recovery check and never ends the loop by it.
C8_RunnerExceptionCaught ==
    /\ \A i \in Exceptions :
          Site(i) = "runner" =>
             /\ i < Len(trace)
             /\ trace[i + 1] = Returned(None, trace[i].val[2])
             /\ i + 1 = Len(trace) =>
                   /\ pc \in {"recover", "open"}
                   /\ code_output = None
                   /\ code_error = trace[i].val[2]
    /\ pc = "raised" => Site(Len(trace)) # "runner"

\* the runner raised, its message matched a signature, and the iteration got to
\* the point of writing its record
C8_Witness ==
    /\ pc = "persist"
    /\ \E i \in Exceptions : Site(i) = "runner"
    /\ Count("extract_package_name") = 1

\* the exceptions that are caught where they are raised
CaughtLocally == {"runner", "os.remove", "open", "subprocess.call"}

\* C9 as stated: every exception outside the runner call ends the loop.
C9_EveryExceptionEndsTheLoop ==
    \A i \in Exceptions : Site(i) # "runner" => pc = "raised" /\ i = Len(trace)

\* C9, amended: an exception of input, the size check of the named file, the model
\* call, the content extraction, the code extraction, save_code, the package steps
\* or the record writing ends the loop: nothing runs after it and the failing
\* iteration writes no record. An exception of os.remove, of reading the named file,
\* of the runner or of opening a resource file is caught and the iteration goes on.
C9_UncaughtExceptionEndsTheLoop ==
    /\ [](\A i \in Exceptions :
             Site(i) \notin CaughtLocally => pc = "raised" /\ i = Len(trace))
    /\ [](pc = "raised" =>
             /\ Len(trace) \in Exceptions
             /\ Site(Len(trace)) \notin CaughtLocally
             /\ records = (IF INTERPRETER_MODE = "Vision" THEN 0
                           ELSE IF task = None THEN iter ELSE iter - 1))
    /\ [][pc # "raised"]_vars

\* the second iteration ended the loop in the content extraction
C9_Witness ==
    /\ pc = "raised"
    /\ Site(Len(trace)) = "_extract_content"
    /\ iter = 2
    /\ records = 1

\* C10 as stated: once an error matched a dependency signature the iteration
\* never ends the loop.
C10_RecoveryNeverEndsTheLoop ==
    Idx("extract_package_name") # {} => pc # "raised"

\* C10, amended: once an error matched a dependency signature the iteration gets
\* to the writing of its record whatever extract_package_name returns and however
\* the second execution ends; the loop ends only by an exception of
\* extract_package_name, install_package, the confirmation input or the record
\* writing.
C10_RecoveryEndsOnlyByException ==
    Idx("extract_package_name") # {} =>
       \/ pc \in {"install", "retry", "open", "persist"}
       \/ /\ pc = "raised"
          /\ Len(trace) \in Exceptions
          /\ Site(Len(trace)) \in {"extract_package_name", "install_package", "input",
                                   "save_history_json"}

\* the second execution failed with a dependency error again and the record is
\* about to be written
C10_Witness ==
    /\ pc = "persist"
    /\ Count("execute_code") = 2
    /\ Matches(code_error)

----------------------------------------------------------------------------
(* The calls of execute_code in the record *)

Calls == Idx("execute_code")

\* the events of the call at i: its confirmation, its runner, the runner's
\* exception and its return
Within(i) ==
    {j \in (i + 1)..Len(trace) :
        /\ \A k \in (i + 1)..j :
              trace[k].ev \in {"input", "runner", "runner returned", "exception", "returned"}
        /\ \A k \in (i + 1)..(j - 1) : trace[k].ev # "returned"}

Asked(i) == {j \in Within(i) : trace[j].ev = "input"}

Runners(i) == {j \in Within(i) : trace[j].ev = "runner"}

Returns(i) == {j \in Within(i) : trace[j].ev = "returned"}

\* C11: with EXECUTE_CODE false execute_code asks for confirmation, and an answer
\* that is not "y" in any case makes it return (None, None) with no runner invoked;
\* with EXECUTE_CODE true nothing is asked.
C11_DeclinedRunsNothing ==
    \A i \in Calls :
       /\ EXECUTE_CODE => Asked(i) = {}
       /\ ~EXECUTE_CODE /\ trace[i].val[3] # "Vision" => Asked(i) = {i + 1}
       /\ \A j \in Asked(i) :
             trace[j].val \in Answers /\ Lower(trace[j].val) # "y" =>
                /\ Runners(i) = {}
                /\ Returns(i) = {j + 1}
                /\ trace[j + 1] = Returned(None, None)

\* the user answered "yes", which is not "y": nothing ran and the record is next
C11_Witness ==
    /\ pc = "persist"
    /\ ~EXECUTE_CODE
    /\ \E i \in Calls : \E j \in Asked(i) : trace[j].val = "yes" /\ Runners(i) = {}
    /\ code_output = None /\ code_error = None

\* the call at i was confirmed: automatically, or by an answer that is "y"
Went(i) ==
    \/ EXECUTE_CODE /\ trace[i].val[3] # "Vision"
    \/ \E j \in Asked(i) : trace[j].val \in Answers /\ Lower(trace[j].val) = "y"

\* C12: a confirmed call of execute_code in Script, Command or Code mode invokes
\* exactly one runner: execute_script with the OS name in Script mode,
\* execute_command in Command mode, execute_code with the target language in Code mode.
C12_OneRunnerByMode ==
    \A i \in Calls :
       Went(i) /\ (SCRIPT_MODE \/ COMMAND_MODE \/ CODE_MODE) =>
          /\ Cardinality(Runners(i)) = 1
          /\ \A j \in Runners(i) :
                trace[j].val = IF SCRIPT_MODE THEN <<"execute_script", trace[i].val[1], trace[i].val[2]>>
                             ELSE IF COMMAND_MODE
                             THEN <<"execute_command", trace[i].val[1], None>>
                             ELSE <<"execute_code", trace[i].val[1], trace[i].val[4]>>

\* Script mode on Linux: both executions of an iteration went to the script runner
C12_Witness ==
    /\ pc = "open"
    /\ SCRIPT_MODE
    /\ Cardinality(Calls) = 2
    /\ \A i \in Calls : \E j \in Runners(i) : trace[j].val = <<"execute_script", "print(1)", "Linux">>

\* C13 as stated: on an object configured for Vision every call of execute_code,
\* before or after the start of interpreter_main, returns (None, None) without
\* asking and without a runner.
C13_VisionNeverExecutes ==
    \A i \in Calls :
       VISION_MODE =>
          /\ Asked(i) = {}
          /\ Runners(i) = {}
          /\ Returns(i) = {i + 1}
          /\ trace[i + 1] = Returned(None, None)

\* C13, what holds: once interpreter_main has set INTERPRETER_MODE the call returns
\* (None, None) at once; before that (INTERPRETER_MODE is still 'code') it asks
\* for confirmation unless EXECUTE_CODE, runs no runner, and returns ("", "") when
\* confirmed and (None, None) when declined.
C13_VisionShortCutsOnceStarted ==
    \A i \in Calls :
       VISION_MODE =>
          /\ Runners(i) = {}
          /\ os_name # None =>
                /\ Asked(i) = {}
                /\ Returns(i) = {i + 1}
                /\ trace[i + 1] = Returned(None, None)
          /\ os_name = None =>
                /\ trace[i].val[3] = "code"
                /\ EXECUTE_CODE \/ Asked(i) = {i + 1}
                /\ \A j \in Returns(i) :
                      trace[j] = IF Went(i) THEN Returned("", "") ELSE Returned(None, None)

\* a Vision object, interpreter_main not yet started: execute_code asked, was
\* answered "Y", and returned ("", "")
C13_Witness ==
    /\ pc = "called"
    /\ VISION_MODE /\ os_name = None
    /\ \E i \in Calls : \E j \in Asked(i) : trace[j].val = "Y"
    /\ code_output = "" /\ code_error = ""

\* C14 as stated: the returned pair has exactly one populated component when a
\* runner was invoked, and two empty components only when no runner was.
C14_ExactlyOnePopulated ==
    \A i \in Calls : \A j \in Returns(i) :
       IF Runners(i) # {}
       THEN Truthy(trace[j].val[1]) # Truthy(trace[j].val[2])
       ELSE ~Truthy(trace[j].val[1]) /\ ~Truthy(trace[j].val[2])

\* C14, amended: the pair is (None, None) when the call was not confirmed,
\* (None, message) when the runner raised, and otherwise the pair the runner
\* returned, as it is, ("", "") when no runner was selected.
C14_PairIsTheRunners ==
    \A i \in Calls : \A j \in Returns(i) :
       trace[j].val =
          IF ~Went(i) THEN <<None, None>>
          ELSE IF \E k \in Within(i) : trace[k].ev = "exception"
          THEN <<None, trace[CHOOSE k \in Within(i) : trace[k].ev = "exception"].val[2]>>
          ELSE IF \E k \in Within(i) : trace[k].ev = "runner returned"
          THEN trace[CHOOSE k \in Within(i) : trace[k].ev = "runner returned"].val
          ELSE <<"", "">>

\* the runner wrote to both streams and execute_code returned both
C14_Witness ==
    /\ pc = "recover"
    /\ code_output = "42"
    /\ code_error = "DeprecationWarning: x"

----------------------------------------------------------------------------
(* The order of the steps of an iteration *)

\* the steps that may follow each step: the next one, the ones after an optional
\* step that is left out, or the end of the loop by an exception
StepsAfter ==
    [p \in {"await", "prompt", "clean", "file", "augment", "model", "extract", "save",
            "execute", "recover", "install", "retry", "open", "persist"} |->
       CASE p = "await"   -> {"prompt", "exit", "raised"}
         [] p = "prompt"  -> {"clean"}
         [] p = "clean"   -> {"file"}
         [] p = "file"    -> {"augment", "raised"}
         [] p = "augment" -> {"model"}
         [] p = "model"   -> {"extract", "raised"}
         [] p = "extract" -> {"save", "persist", "raised"}
         [] p = "save"    -> {"execute", "raised"}
         [] p = "execute" -> {"recover", "raised"}
         [] p = "recover" -> {"install", "open", "raised"}
         [] p = "install" -> {"retry", "raised"}
         [] p = "retry"   -> {"open", "raised"}
         [] p = "open"    -> {"persist"}
         [] p = "persist" -> {"await", "raised"}]

\* save_code comes before the first execution, the resource files are opened after
\* the last one
SaveExecuteOpen ==
    /\ \A i \in Idx("save_code") : \A j \in Calls : i < j
    /\ \A i \in Idx("_open_resource_file") : \A j \in Calls : j < i
    /\ \A i \in Idx("_open_resource_file") : \A j \in Idx("install_package") : j < i

\* C15 as stated: every iteration goes through build prompt, augment, model call,
\* Vision display or extraction, save, execute, recover, open, persist in this order,
\* and the next task is read only after the persistence step.
C15_StepsEndWithPersist ==
    [][/\ SaveExecuteOpen'
       /\ pc \notin {"start", "exit", "raised"} /\ pc' # pc => pc' \in StepsAfter[pc]]_vars

\* C15, amended: the same order, except that in Vision mode the display of the
\* model output is the last step: the loop goes from the model call straight back
\* to reading the next task, with no persistence step.
C15_StepsInOrder ==
    /\ []SaveExecuteOpen
    /\ [][pc \notin {"start", "exit", "raised"} /\ pc' # pc =>
             IF pc = "model" /\ INTERPRETER_MODE = "Vision"
             THEN pc' \in {"await", "raised"}
             ELSE pc' \in StepsAfter[pc]]_vars

\* an iteration with every optional step: the code was saved, executed, the package
\* installed, the code executed again, the resource files opened
C15_Witness ==
    /\ pc = "persist"
    /\ Count("save_code") = 1
    /\ Cardinality(Calls) = 2
    /\ Count("install_package") = 1
    /\ Count("_open_resource_file") = 1

----------------------------------------------------------------------------
(* The mode and the session configuration *)

ModeFlags == <<CODE_MODE, SCRIPT_MODE, COMMAND_MODE, VISION_MODE>>

\* C16: exactly one of the four mode flags is true for every value of args.mode,
\* Code for a missing or unknown value; no step of the loop changes a flag, and
\* INTERPRETER_MODE, once interpreter_main has resolved it, names the flag and
\* stays as it is.
C16_OneModeFixed ==
    /\ [](/\ Cardinality({i \in 1..4 : ModeFlags[i]}) = 1
          /\ SCRIPT_MODE = (args.mode = "script")
          /\ COMMAND_MODE = (args.mode = "command")
          /\ VISION_MODE = (args.mode = "vision")
          /\ CODE_MODE = (args.mode \notin {"script", "command", "vision"})
          /\ pc # "start" =>
                INTERPRETER_MODE = IF SCRIPT_MODE THEN "Script"
                                   ELSE IF COMMAND_MODE THEN "Command"
                                   ELSE IF VISION_MODE THEN "Vision" ELSE "code")
    /\ [][/\ UNCHANGED ModeFlags
          /\ pc # "start" => UNCHANGED INTERPRETER_MODE]_vars

\* --mode chat: the session runs in Code mode, and two iterations later it still does
C16_Witness ==
    /\ args.mode = "chat"
    /\ CODE_MODE /\ INTERPRETER_MODE = "code"
    /\ iter = 2 /\ pc = "persist"
    /\ Len(history) = 2

\* the target language initialize leaves: args.lang, or python
InitialLanguage == IF args.lang # None THEN args.lang ELSE "python"

\* C17 as stated: the target language, the execution flag, the display flag, the
\* model identifier and the mode have at every point of the loop the values
\* initialization gave them.
C17_ConfigurationReadOnly ==
    /\ INTERPRETER_LANGUAGE = InitialLanguage
    /\ EXECUTE_CODE = args.exec
    /\ DISPLAY_CODE = args.display_code
    /\ INTERPRRETER_MODEL = args.model
    /\ SCRIPT_MODE = (args.mode = "script")
    /\ COMMAND_MODE = (args.mode = "command")
    /\ VISION_MODE = (args.mode = "vision")

\* C17, amended: the execution, display and save flags and the mode flags keep
\* their values; the target language keeps its value except in Script mode, where
\* every prompt building sets it to the dialect of the OS; the model identifier is
\* changed only by the model call, to its provider-qualified form, once.
C17_FlagsReadOnly ==
    /\ [](/\ EXECUTE_CODE = args.exec
          /\ DISPLAY_CODE = args.display_code
          /\ SAVE_CODE = args.save_code
          /\ SCRIPT_MODE = (args.mode = "script")
          /\ COMMAND_MODE = (args.mode = "command")
          /\ VISION_MODE = (args.mode = "vision")
          /\ ~SCRIPT_MODE => INTERPRETER_LANGUAGE = InitialLanguage
          /\ INTERPRRETER_MODEL \in
                {args.model,
                 IF args.model = "codellama" THEN "huggingface/codellama" ELSE args.model})
    /\ [][/\ INTERPRETER_LANGUAGE' # INTERPRETER_LANGUAGE =>
                /\ SCRIPT_MODE /\ pc = "prompt"
                /\ INTERPRETER_LANGUAGE' \in {"applescript", "bash", "powershell", "python"}
          /\ INTERPRRETER_MODEL' # INTERPRRETER_MODEL =>
                pc = "model" /\ INTERPRRETER_MODEL = args.model]_vars

\* a Script session on Linux started with python and codellama: two iterations
\* later the language is bash and the model huggingface/codellama
C17_Witness ==
    /\ SCRIPT_MODE /\ args.lang = None /\ args.model = "codellama"
    /\ iter = 2 /\ pc = "persist"
    /\ INTERPRETER_LANGUAGE = "bash"
    /\ INTERPRRETER_MODEL = "huggingface/codellama"

----------------------------------------------------------------------------
(* The conversation history *)

\* C18: the history only grows at its end: the prompt building of Code mode
\* appends the one pair (task, prompt), the prompt building of the other modes and
\* every other step of the loop leave the history as it is.
C18_HistoryAppendOnly ==
    [][IF pc = "prompt" /\ CODE_MODE
       THEN /\ Len(history') = Len(history) + 1
            /\ SubSeq(history', 1, Len(history)) = history
            /\ history'[Len(history')] = <<task, prompt'>>
       ELSE history' = history]_vars

\* two Code-mode iterations: two pairs, in the order of the tasks
C18_Witness ==
    /\ CODE_MODE /\ iter = 2 /\ pc = "persist"
    /\ Len(history) = 2
    /\ history[1][1] = "list files" /\ history[2][1] = "graph data.csv"
    /\ history[2][2] # prompt

----------------------------------------------------------------------------
(* Prompt building called twice *)

Built == Idx("get_mode_prompt")

\* C19: in Script mode two buildings with the same task and OS name give the same
\* prompt and leave the same target language, whatever the language was before
\* each; in Code, Command and Vision mode a building leaves the language as it was.
C19_ScriptPromptIdempotent ==
    /\ \A i, j \in Built :
          SCRIPT_MODE /\ trace[i].val[1] = trace[j].val[1] /\ trace[i].val[2] = trace[j].val[2] =>
             trace[i].val[3] = trace[j].val[3] /\ trace[i].val[5] = trace[j].val[5]
    /\ \A i \in Built : ~SCRIPT_MODE => trace[i].val[5] = trace[i].val[4]

\* Script mode with --lang javascript: the first building found javascript, the
\* second the dialect the first had set, and both gave the same prompt
C19_Witness ==
    /\ SCRIPT_MODE
    /\ Built = {1, 2}
    /\ trace[1].val[4] = "javascript" /\ trace[2].val[4] # "javascript"
    /\ trace[1].val[3] = trace[2].val[3]

\* the script dialect the prompt names: the second piece of the Script prompt
Named(i) == trace[i].val[3][2]

\* C20 as stated: after a Script prompt is built the target language is the
\* dialect the prompt names: applescript for macos, bash for linux, powershell for
\* windows, and for any other OS name a generic script, no programming language.
C20_LanguageIsTheDialect ==
    \A i \in Built :
       SCRIPT_MODE =>
          CASE Lower(trace[i].val[2]) = "macos" ->
                  Named(i) = "Apple script" /\ trace[i].val[5] = "applescript"
            [] Lower(trace[i].val[2]) = "linux" ->
                  Named(i) = "Bash Shell script" /\ trace[i].val[5] = "bash"
            [] Lower(trace[i].val[2]) = "windows" ->
                  Named(i) = "Powershell script" /\ trace[i].val[5] = "powershell"
            [] OTHER ->
                  Named(i) = "script" /\ trace[i].val[5] \notin {"python", "javascript"}

\* C20, amended: the same for macos, linux and windows; for any other OS name the
\* prompt names a generic script and the target language becomes python.
C20_LanguageIsTheDialectOrPython ==
    \A i \in Built :
       SCRIPT_MODE =>
          CASE Lower(trace[i].val[2]) = "macos" ->
                  Named(i) = "Apple script" /\ trace[i].val[5] = "applescript"
            [] Lower(trace[i].val[2]) = "linux" ->
                  Named(i) = "Bash Shell script" /\ trace[i].val[5] = "bash"
            [] Lower(trace[i].val[2]) = "windows" ->
                  Named(i) = "Powershell script" /\ trace[i].val[5] = "powershell"
            [] OTHER ->
                  Named(i) = "script" /\ trace[i].val[5] = "python"

\* Script mode on FreeBSD with --lang javascript: the prompt asks for a script
\* and the target language is python
C20_Witness ==
    /\ SCRIPT_MODE /\ system = "FreeBSD" /\ args.lang = "javascript"
    /\ Built # {}
    /\ \A i \in Built : trace[i].val[2] = "Other" /\ Named(i) = "script"
    /\ INTERPRETER_LANGUAGE = "python"

----------------------------------------------------------------------------
(* The keyword augmentations *)

GraphNotes == {"using Python use Matplotlib save the graph in file called 'graph.png'",
               "using JavaScript use Chart.js save the graph in file called 'graph.png'"}

ChartNotes == {"using Python use Plotly save the chart in file called 'chart.png'",
               "using JavaScript use Chart.js save the chart in file called 'chart.png'"}

TableNotes == {"using Python use Pandas save the table in file called 'table.md'",
               "using JavaScript use DataTables save the table in file called 'table.html'"}

\* the places of the prompt that hold a text of N
Notes(N) == {i \in 1..Len(prompt) : prompt[i] \in N}

GraphWords == {"graph", "graphs"}
ChartWords == {"chart", "charts", "plot", "plots"}
TableWords == {"table"}

\* the text folded in from the named file
Folded == {prompt[i + 1] : i \in Notes({"This is file data from user input: "})}

\* C21 as stated: at the model call the prompt holds the graph, chart or table
\* instruction only if the task itself contains a keyword of that class.
C21_AugmentationsIndependent ==
    pc = "model" =>
       /\ Notes(GraphNotes) # {} => Keywords(task) \cap GraphWords # {}
       /\ Notes(ChartNotes) # {} => Keywords(task) \cap ChartWords # {}
       /\ Notes(TableNotes) # {} => Keywords(task) \cap TableWords # {}

\* C21, what holds: an instruction is in the prompt only if a keyword of its class
\* is in the task, in the file data folded in, or in an instruction appended
\* before it (Matplotlib and Chart.js of the graph instruction bring the chart one).
C21_AugmentationsChain ==
    pc = "model" =>
       /\ Notes(GraphNotes) # {} =>
             \/ Keywords(task) \cap GraphWords # {}
             \/ \E d \in Folded : Keywords(d) \cap GraphWords # {}
       /\ Notes(ChartNotes) # {} =>
             \/ Keywords(task) \cap ChartWords # {}
             \/ \E d \in Folded : Keywords(d) \cap ChartWords # {}
             \/ Notes(GraphNotes) # {}
       /\ Notes(TableNotes) # {} =>
             \/ Keywords(task) \cap TableWords # {}
             \/ \E d \in Folded : Keywords(d) \cap TableWords # {}

\* Code mode, python, the task asks for a graph of data.csv: the prompt sent to
\* the model asks for graph.png with Matplotlib and for chart.png with Plotly
C21_Witness ==
    /\ pc = "model"
    /\ CODE_MODE /\ INTERPRETER_LANGUAGE = "python"
    /\ task = "graph data.csv"
    /\ Notes(GraphNotes) # {} /\ Notes(ChartNotes) # {} /\ Notes(TableNotes) = {}

TableMd   == "using Python use Pandas save the table in file called 'table.md'"
TableHtml == "using JavaScript use DataTables save the table in file called 'table.html'"

\* C23 as stated: in every mode and for every target language, a task with a
\* graph, chart/plot or table keyword reaches the model with the instruction of
\* that class (table.md for python, table.html for every other language).
C23_KeywordGivesInstruction ==
    pc = "model" =>
       /\ Keywords(task) \cap GraphWords # {} => Notes(GraphNotes) # {}
       /\ Keywords(task) \cap ChartWords # {} => Notes(ChartNotes) # {}
       /\ Keywords(task) \cap TableWords # {} =>
             IF INTERPRETER_LANGUAGE = "python" THEN Notes({TableMd}) # {}
             ELSE Notes({TableHtml}) # {}

\* C23: in every mode, when the target language is python or javascript a task
\* with a graph, chart/plot or table keyword reaches the model with the
\* instruction of that class (table.md for python, table.html for javascript);
\* for any other target language no instruction is in the prompt.
C23_KeywordGivesInstructionForPythonAndJavascript ==
    pc = "model" =>
       IF INTERPRETER_LANGUAGE \in {"python", "javascript"}
       THEN /\ Keywords(task) \cap GraphWords # {} => Notes(GraphNotes) # {}
            /\ Keywords(task) \cap ChartWords # {} => Notes(ChartNotes) # {}
            /\ Keywords(task) \cap TableWords # {} =>
                  Notes({IF INTERPRETER_LANGUAGE = "python" THEN TableMd ELSE TableHtml}) # {}
            /\ Notes({IF INTERPRETER_LANGUAGE = "python" THEN TableHtml ELSE TableMd}) = {}
       ELSE Notes(GraphNotes \cup ChartNotes \cup TableNotes) = {}

\* a javascript session has reached the model call with a table task and the
\* table.html instruction
C23_Witness ==
    /\ pc = "model"
    /\ INTERPRETER_LANGUAGE = "javascript"
    /\ "table" \in Keywords(task)
    /\ Notes({TableHtml}) # {}
    /\ Notes(ChartNotes) = {}

FoldWords == {"graph", "graphs", "chart", "charts"}

\* the file step has opened the named file and read it without an exception
ReadNamedFile ==
    /\ extracted_file_name' # None
    /\ ~IsUrl(extracted_file_name')
    /\ Len(trace') = Len(trace) + 1
    /\ trace'[Len(trace')].ev = "open"

\* the file step has ended with the exception of os.path.getsize
SizeRaised ==
    /\ Len(trace') = Len(trace) + 1
    /\ trace'[Len(trace')].ev = "exception"
    /\ trace'[Len(trace')].val[1] = "getsize"

FoldedPrompt ==
    prompt \o <<"\n", "This is file data from user input: ",
                file_data(extracted_file_name'), " use this to analyze the data.">>

\* C24 as stated: the file step folds file data into the prompt only when a
\* name was extracted, it is no URL, the file exists, is small enough, was read
\* and the task has a graph/chart keyword; in every other case it leaves the
\* prompt alone and the iteration goes on to the augmentations.
C24_FoldOnlyWhenAllHoldElseContinue ==
    [][pc = "file" =>
         IF ReadNamedFile /\ Keywords(task) \cap FoldWords # {}
         THEN pc' = "augment"
         ELSE prompt' = prompt /\ pc' = "augment"]_vars

\* C24: the file step folds file data into the prompt exactly when a name was
\* extracted, it is no URL, the file exists, is small enough, was read and the
\* task has a graph/chart keyword; in every other case it leaves the prompt
\* alone, and the iteration goes on to the augmentations unless reading the
\* size of the file raised, which ends the loop.
C24_FoldOnlyWhenAllHold ==
    [][pc = "file" =>
         IF ReadNamedFile /\ Keywords(task) \cap FoldWords # {}
         THEN prompt' = FoldedPrompt /\ pc' = "augment"
         ELSE /\ prompt' = prompt
              /\ IF SizeRaised
                 THEN pc' = "raised" /\ extracted_file_name' # None
                      /\ ~IsUrl(extracted_file_name')
                 ELSE pc' = "augment"]_vars

\* a file was named, opened and read for a task without a graph/chart keyword,
\* and the prompt that goes on is the mode prompt alone
C24_Witness ==
    /\ pc = "augment"
    /\ task = "summarise sales.csv"
    /\ extracted_file_name = "sales.csv"
    /\ trace # <<>> /\ trace[Len(trace)].ev = "open"
    /\ Notes({"This is file data from user input: "}) = {}

\* the calls made only inside `if extracted_code:`
GuardedCalls == {"save_code", "execute_code", "input", "runner", "runner returned",
                 "extract_package_name", "install_package", "_open_resource_file"}

\* C25: once the extraction has returned an empty string, no runner is invoked,
\* no confirmation is asked, no package is installed, no file is saved or opened:
\* the iteration is at the persistence step, or that step has raised.
C25_EmptyCodeGoesToPersistence ==
    extracted_code = "" =>
       /\ \A i \in 1..Len(trace) : trace[i].ev \notin GuardedCalls
       /\ \A i \in Idx("extract_code") : trace[i].val = "" /\ i >= Len(trace) - 1
       /\ pc \in {"persist", "raised"}
       /\ pc = "raised" => Site(Len(trace)) = "save_history_json"
       /\ pc = "persist" => trace[Len(trace)] = Event("extract_code", "")

\* an executing, saving session is at the persistence step after an empty extraction
C25_Witness ==
    /\ pc = "persist"
    /\ extracted_code = ""
    /\ EXECUTE_CODE /\ SAVE_CODE
    /\ Idx("extract_code") # {}

\* the loop body is between get_mode_prompt and the return of save_history_json
InProgress == pc \in AfterClean \cup {"clean"}

\* the loop was ended by the exception of input("> ")
RaisedAtInput == Len(trace) = 1 /\ 1 \in Exceptions /\ Site(1) = "input"

\* C29: in a Code-mode session the history has as many entries as records were
\* written whenever the loop awaits input (and before the loop, and after exit);
\* it is one entry ahead exactly while an iteration is in progress, and after an
\* exception of the loop body that was raised after the prompt was built.
C29_HistoryMatchesRecords ==
    CODE_MODE =>
       /\ pc \in {"start", "await", "prompt", "exit"} => Len(history) = records
       /\ InProgress => Len(history) = records + 1
       /\ pc = "raised" =>
             Len(history) = IF RaisedAtInput THEN records ELSE records + 1

\* a Code-mode session awaits input after an iteration that wrote its record
C29_Witness ==
    /\ CODE_MODE
    /\ pc = "await"
    /\ records >= 1
    /\ Len(history) = records

\* a step that is a call of generate_text on the object
CallStep == pc \in {"start", "await"} /\ iter' = iter + 1

\* the first call the step has recorded
FirstNew == trace'[Len(trace) + 1]

GeminiVision == Branch(INTERPRRETER_MODEL) = "gemini" /\ INTERPRETER_MODE = "Vision"

\* C26 as stated: in every provider branch but Gemini Vision, generate_text makes
\* the completion call with the temperature and the max-token limit of the
\* configuration, or the defaults for a key it lacks and for an empty
\* configuration, and an empty configuration never makes the call fail.
C26_EveryBranchPassesBothLimits ==
    [][CallStep /\ ~GeminiVision =>
         /\ FirstNew.ev = "completion"
         /\ FirstNew.val[2] = temperature_of(config_values)
         /\ FirstNew.val[3] = max_tokens_of(config_values)]_vars

\* C26, what the branches do: the OpenAI-compatible branch with an empty
\* configuration raises before any call (api_base was never assigned); otherwise
\* every branch but Gemini Vision makes the completion call with the temperature
\* of the configuration or the default, and, except the Gemini branch, which
\* passes no limit, with the max-token limit of the configuration or the default.
C26_LimitsPerBranch ==
    [][CallStep /\ ~GeminiVision =>
         IF Branch(INTERPRRETER_MODEL) = "gpt" /\ config_values = {}
         THEN /\ pc' = "raised"
              /\ FirstNew.ev = "exception" /\ FirstNew.val[1] = "api_base"
              /\ Len(trace') = Len(trace) + 1
         ELSE /\ FirstNew.ev = "completion"
              /\ FirstNew.val[1] = INTERPRRETER_MODEL'
              /\ FirstNew.val[2] = temperature_of(config_values)
              /\ FirstNew.val[3] = IF Branch(INTERPRRETER_MODEL) = "gemini" THEN "absent"
                                 ELSE max_tokens_of(config_values)]_vars

\* the PaLM branch has made its call with the temperature of a configuration
\* that lacks max_tokens, and the default limit
C26_Witness ==
    /\ pc = "called"
    /\ config_values = {"temperature"}
    /\ trace[Len(trace)].ev = "completion"
    /\ trace[Len(trace)].val = <<"palm/chat-bison", "config", "default">>

\* how many times the identifier holds the provider namespace tag
Prefixes(m) ==
    CASE m = "huggingface/codellama"             -> 1
      [] m = "huggingface/huggingface/codellama" -> 2
      [] OTHER                                   -> 0

\* the branch of the identifier given at construction: "gpt" is tried first,
\* then "palm", then "gemini", otherwise the hosted third-party branch
FirstBranch ==
    IF In("gpt", args.model) THEN "gpt"
    ELSE IF In("palm", args.model) THEN "palm"
    ELSE IF In("gemini", args.model) THEN "gemini"
    ELSE "huggingface"

\* the identifier every completion call of the session is made with
CalledAs ==
    CASE FirstBranch = "gpt"    -> args.model
      [] FirstBranch = "palm"   -> "palm/chat-bison"
      [] FirstBranch = "gemini" -> "gemini/gemini-pro"
      [] OTHER                  -> IF Prefixes(args.model) > 0 THEN args.model
                                   ELSE "huggingface/codellama"

\* C27: over a session the identifier always selects the branch the identifier
\* given at construction selects ("gpt" before "palm" before "gemini" before the
\* hosted branch); every completion call, the first and the later ones, is made
\* with the same rewritten identifier; rewriting the identifier again leaves it
\* as it is; the huggingface/ prefix is there at most once.
C27_BranchStableRewritesIdempotent ==
    pc # "startup failed" =>
       /\ Branch(INTERPRRETER_MODEL) = FirstBranch
       /\ INTERPRRETER_MODEL \in {args.model, CalledAs}
       /\ \A i \in Idx("completion") : trace[i].val[1] = CalledAs
       /\ Idx("completion") # {} => INTERPRRETER_MODEL = CalledAs
       /\ Rewritten(Rewritten(INTERPRRETER_MODEL)) = Rewritten(INTERPRRETER_MODEL)
       /\ Prefixes(INTERPRRETER_MODEL) <= 1
       /\ Prefixes(Rewritten(INTERPRRETER_MODEL)) <= 1

\* a second call has been made with codellama, prefixed once by the first
C27_Witness ==
    /\ pc = "called"
    /\ args.model = "codellama"
    /\ INTERPRRETER_MODEL = "huggingface/codellama"
    /\ Cardinality(Idx("completion")) >= 2

\* the configuration file and the environment the object was constructed with
StartupConfig == trace[1].val[2]
StartupEnvironment == trace[1].val[3]

\* the key of the model's own provider passes its check, or none is asked for
OwnKeysValid ==
    /\ In("gpt", args.model) => StartupEnvironment["OPENAI_API_KEY"] = "valid"
    /\ In("palm", args.model) => StartupEnvironment["PALM_API_KEY"] = "valid"
    /\ In("gemini-pro", args.model) => StartupEnvironment["GEMINI_API_KEY"] = "valid"

\* C28: for every model identifier, gpt, palm and gemini ones with a valid key
\* of their own included, construction fails when HUGGINGFACE_API_KEY is missing
\* or does not start with "hf_": with the configuration read and the own keys
\* valid, initialize_client raises the Hugging Face error exactly then.
C28_HuggingFaceKeyAlwaysValidated ==
    trace # <<>> /\ trace[1].ev = "initialize_client" =>
       /\ StartupEnvironment["HUGGINGFACE_API_KEY"] # "valid" => pc = "startup failed"
       /\ StartupConfig.found /\ OwnKeysValid =>
            IF StartupEnvironment["HUGGINGFACE_API_KEY"] = "valid"
            THEN pc # "startup failed"
            ELSE /\ pc = "startup failed"
                 /\ trace[2] = RaisedMsg("initialize_client",
                                  huggingface_key_error(StartupEnvironment))

\* construction with gpt-4 and a valid OpenAI key has failed on the Hugging Face
\* token that does not start with "hf_"
C28_Witness ==
    /\ pc = "startup failed"
    /\ args.model = "gpt-4"
    /\ StartupConfig.found
    /\ StartupEnvironment["OPENAI_API_KEY"] = "valid"
    /\ StartupEnvironment["HUGGINGFACE_API_KEY"] = "malformed"
    /\ trace[2].val[2] = "HuggingFace token should start with 'hf_'."

\* the loop body is running: a task was read and the loop has not come back to
\* input("> ") nor ended
Running == pc \in {"prompt", "clean"} \cup AfterClean

\* C30: every iteration comes back to awaiting input or ends the loop; inside
\* an iteration execute_code is called at most twice and a package is installed
\* at most once; the loop ends only by an exit/quit input at the prompt or by
\* an exception, which is the last call recorded.
C30_IterationsTerminate ==
    /\ Running ~> pc \in {"await", "exit", "raised"}
    /\ [](/\ Cardinality(Calls) <= 2 /\ Count("install_package") <= 1
          /\ pc = "exit" => Lower(task) \in {"exit", "quit"} /\ trace = <<>>
          /\ pc = "raised" => trace # <<>> /\ trace[Len(trace)].ev = "exception")

\* an iteration that installed a package and executed the code again has written
\* its record, and the loop awaits input
C30_Witness ==
    /\ pc = "await"
    /\ records >= 1
    /\ iter >= 1
    /\ EXECUTE_CODE

====
